---- MODULE Spec2Model ----
(***************************************************************************)
(* Daily Micro-Expense Tracker (src/script.js).                            *)
(*                                                                         *)
(* The state is the localStorage entry 'dailyExpenses', the clock, the     *)
(* local time-zone offset and the rendered page.  The operations are the   *)
(* two event handlers, handleFormSubmit and handleDelete, each followed by *)
(* the refreshUI it calls, and the passing of time.                        *)
(*                                                                         *)
(* Representation.                                                         *)
(*  - A string the code inspects (the name and amount form fields) is a    *)
(*    sequence of one-character strings, so that trim and parseFloat are   *)
(*    computed.  Amount literals are integers: on integers the floating    *)
(*    point sums, quotients and comparisons of the code agree with exact   *)
(*    arithmetic, which is what the model computes.                        *)
(*  - A JavaScript number-or-null is [kind, v], kind "num", "NaN" or       *)
(*    "null".                                                              *)
(*  - A Date is its instant in milliseconds counted from 00:00 UTC of the  *)
(*    date Epoch; Date.now() is counted from the same origin, so ids keep  *)
(*    their order and their equalities.                                    *)
(*  - The date string "YYYY-MM-DD" is <<YYYY, MM, DD>>, the month string   *)
(*    "YYYY-MM" is <<YYYY, MM>>.                                           *)
(*  - A category is a label such as "food": not a canonical array index,   *)
(*    for which Object.entries keeps insertion order.                      *)
(***************************************************************************)
EXTENDS Integers, Sequences, FiniteSets

VARIABLES
    storage,    \* the localStorage entry 'dailyExpenses'
    now,        \* the clock
    tz,         \* local time minus UTC, in minutes
    lastOp,     \* the last operation that wrote the collection
    header,     \* the page: today's date and the current month
    ledger,     \* the page: today's ledger and its total
    summary,    \* the page: the monthly summary
    breakdown,  \* the page: the category breakdown
    insights    \* the page: the insights container

vars == <<storage, now, tz, lastOp, header, ledger, summary, breakdown, insights>>

(***************************************************************************)
(* Bounds of the model.                                                    *)
(***************************************************************************)
\* Submissions are accepted while the collection holds fewer records.
MaxLen == 3
\* The clock advances at most this many times.
MaxTicks == 3

(***************************************************************************)
(* Time.                                                                   *)
(***************************************************************************)
MinuteMs == 60 * 1000
HourMs == 60 * MinuteMs
DayMs == 24 * HourMs

\* The origin of the model's clock: 2024-04-28T00:00:00.000Z.
Epoch == <<2024, 4, 28>>

\* The first clock reading, 20:00 UTC on the origin day, and the time that
\* passes between two readings: the readings fall on 28 April, on 29 April
\* and twice on 30 April (the second time after midnight in India), and
\* go on in May.
StartMs == 20 * HourMs
StepMs == 16 * HourMs

\* Local time minus UTC, in minutes: New York (EST), UTC, India.
TzOffsets == {0 - 300, 0, 330}

\* Days from 1970-01-01 of a proleptic Gregorian date.
DaysFromCivil(y, m, d) ==
    LET yy == IF m <= 2 THEN y - 1 ELSE y
        era == yy \div 400
        yoe == yy - era * 400
        mp == IF m > 2 THEN m - 3 ELSE m + 9
        doy == (153 * mp + 2) \div 5 + d - 1
        doe == yoe * 365 + yoe \div 4 - yoe \div 100 + doy
    IN  era * 146097 + doe - 719468

\* The proleptic Gregorian date <<y, m, d>> of a day count from 1970-01-01.
CivilFromDays(days) ==
    LET z == days + 719468
        era == z \div 146097
        doe == z - era * 146097
        yoe == (doe - doe \div 1460 + doe \div 36524 - doe \div 146096) \div 365
        doy == doe - (365 * yoe + yoe \div 4 - yoe \div 100)
        mp == (5 * doy + 2) \div 153
        d == doy - (153 * mp + 2) \div 5 + 1
        m == IF mp < 10 THEN mp + 3 ELSE mp - 9
        y == yoe + era * 400 + (IF m <= 2 THEN 1 ELSE 0)
    IN  <<y, m, d>>

EpochDay == DaysFromCivil(Epoch[1], Epoch[2], Epoch[3])

\* date.toISOString().split('T')[0]: the UTC calendar date of an instant.
getDateString(date) == CivilFromDays(EpochDay + date \div DayMs)

\* date.toISOString(): the UTC date and the milliseconds within that day.
toISOString(date) == getDateString(date) \o <<date % DayMs>>

\* new Date("YYYY-MM-DD"): a date-only string is midnight UTC of that date.
NewDate(dateStr) ==
    (DaysFromCivil(dateStr[1], dateStr[2], dateStr[3]) - EpochDay) * DayMs

\* The local calendar date <<getFullYear, getMonth + 1, getDate>>.
LocalDate(date, offset) ==
    CivilFromDays(EpochDay + (date + offset * MinuteMs) \div DayMs)

getMonthString(date, offset) ==
    LET l == LocalDate(date, offset) IN <<l[1], l[2]>>

isSameDay(date1, date2) == getDateString(date1) = getDateString(date2)

isCurrentMonth(dateStr, today, offset) ==
    getMonthString(NewDate(dateStr), offset) = getMonthString(today, offset)

\* new Date(year, month + 1, 0).getDate(): the length of a month.
DaysInMonth(y, m) ==
    LET ny == IF m = 12 THEN y + 1 ELSE y
        nm == IF m = 12 THEN 1 ELSE m + 1
    IN  DaysFromCivil(ny, nm, 1) - DaysFromCivil(y, m, 1)

(***************************************************************************)
(* Strings and numbers.                                                    *)
(***************************************************************************)
Digits == <<"0", "1", "2", "3", "4", "5", "6", "7", "8", "9">>

IsDigit(c) == \E i \in 1..10 : Digits[i] = c

DigitValue(c) == (CHOOSE i \in 1..10 : Digits[i] = c) - 1

IsSpace(c) == c = " "

RECURSIVE TrimStart(_)
TrimStart(s) ==
    IF s # <<>> /\ IsSpace(Head(s)) THEN TrimStart(Tail(s)) ELSE s

RECURSIVE TrimEnd(_)
TrimEnd(s) ==
    IF s # <<>> /\ IsSpace(s[Len(s)])
    THEN TrimEnd(SubSeq(s, 1, Len(s) - 1))
    ELSE s

\* String.prototype.trim
Trim(s) == TrimEnd(TrimStart(s))

Num(v) == [kind |-> "num", v |-> v]
NaN == [kind |-> "NaN", v |-> 0]
Null == [kind |-> "null", v |-> 0]

\* The value of the longest run of digits at the head of s, after acc.
RECURSIVE DigitRun(_, _)
DigitRun(s, acc) ==
    IF s # <<>> /\ IsDigit(Head(s))
    THEN DigitRun(Tail(s), 10 * acc + DigitValue(Head(s)))
    ELSE acc

\* parseFloat on a string with no fraction and no exponent: leading white
\* space is skipped, a sign is read, then the longest run of digits; NaN
\* when no digit follows.
parseFloat(str) ==
    LET s == TrimStart(str)
        signed == s # <<>> /\ Head(s) \in {"-", "+"}
        body == IF signed THEN Tail(s) ELSE s
        mag == DigitRun(body, 0)
    IN  IF body = <<>> \/ ~IsDigit(Head(body)) THEN NaN
        ELSE IF signed /\ Head(s) = "-" THEN Num(0 - mag)
        ELSE Num(mag)

\* A number in an arithmetic context: null converts to 0.  (NaN never
\* comes out of JSON.parse, so no stored amount is NaN.)
ToNumber(a) == IF a.kind = "num" THEN a.v ELSE 0

(***************************************************************************)
(* Storage.                                                                *)
(***************************************************************************)
\* JSON.stringify of one expense: a NaN amount is written as null.
StringifyExpense(e) ==
    [e EXCEPT !.amount = IF e.amount.kind = "num" THEN e.amount ELSE Null]

\* JSON.stringify(expenses)
JSONStringify(expenses) ==
    [i \in 1..Len(expenses) |-> StringifyExpense(expenses[i])]

\* JSON.parse(data): the text holds only numbers, nulls and strings.
JSONParse(data) == data

NoItem == [present |-> FALSE, data |-> <<>>]

\* The collection read from the localStorage entry item.
ExpensesOf(item) == IF item.present THEN JSONParse(item.data) ELSE <<>>

getExpenses == ExpensesOf(storage)

\* The localStorage entry saveExpenses writes.
saveExpenses(expenses) == [present |-> TRUE, data |-> JSONStringify(expenses)]

(***************************************************************************)
(* The store.                                                              *)
(***************************************************************************)
NewExpense(name, amount, category) ==
    [id |-> now,
     name |-> Trim(name),
     amount |-> parseFloat(amount),
     category |-> category,
     date |-> getDateString(now),
     timestamp |-> toISOString(now)]

\* The localStorage entry addExpense leaves.
addExpense(name, amount, category) ==
    saveExpenses(Append(getExpenses, NewExpense(name, amount, category)))

\* A variant of the filter that tests exp.id === id.
FilterOnlyId(expenses, id) ==
    LET keep(exp) == exp.id = id
    IN  SelectSeq(expenses, keep)

\* expenses.filter(exp => exp.id !== id)
FilterOutId(expenses, id) ==
    LET keep(exp) == exp.id # id
    IN  SelectSeq(expenses, keep)

\* The localStorage entry deleteExpense leaves.
deleteExpense(id) == saveExpenses(FilterOutId(getExpenses, id))

(***************************************************************************)
(* The aggregator.                                                         *)
(***************************************************************************)
\* The expenses whose date is the UTC date of the instant today.
TodayExpensesOf(expenses, today) ==
    LET keep(exp) == isSameDay(NewDate(exp.date), today)
    IN  SelectSeq(expenses, keep)

\* The expenses whose date, read as midnight UTC, lies in the local month
\* of the instant today.
MonthExpensesOf(expenses, today, offset) ==
    LET keep(exp) == isCurrentMonth(exp.date, today, offset)
    IN  SelectSeq(expenses, keep)

getTodayExpenses == TodayExpensesOf(getExpenses, now)

getCurrentMonthExpenses == MonthExpensesOf(getExpenses, now, tz)

\* today.getDate(): the local day of the month.
CurrentDay(today, offset) == LocalDate(today, offset)[3]

RECURSIVE calculateTotal(_)
calculateTotal(expenses) ==
    IF expenses = <<>> THEN 0
    ELSE calculateTotal(SubSeq(expenses, 1, Len(expenses) - 1))
         + ToNumber(expenses[Len(expenses)].amount)

\* The position of key among the entries, 0 when it has none.
IndexOfKey(entries, key) ==
    IF \E i \in 1..Len(entries) : entries[i][1] = key
    THEN CHOOSE i \in 1..Len(entries) : entries[i][1] = key
    ELSE 0

\* Object.entries of the totals accumulated by the forEach pass, keyed by
\* exp[field]: a key enters at its first record and keeps its place.
RECURSIVE GroupTotals(_, _)
GroupTotals(expenses, field) ==
    IF expenses = <<>> THEN <<>>
    ELSE LET before == GroupTotals(SubSeq(expenses, 1, Len(expenses) - 1), field)
             exp == expenses[Len(expenses)]
             at == IndexOfKey(before, exp[field])
         IN  IF at = 0
             THEN Append(before, <<exp[field], 0 + ToNumber(exp.amount)>>)
             ELSE [before EXCEPT ![at] =
                      <<exp[field], before[at][2] + ToNumber(exp.amount)>>]

\* A variant of the insertion for a sort that is not stable: the entry goes
\* ahead of the entries it ties with.
RECURSIVE InsertSortedAheadOfTies(_, _)
InsertSortedAheadOfTies(sorted, entry) ==
    IF sorted = <<>> THEN <<entry>>
    ELSE IF entry[2] - Head(sorted)[2] >= 0
         THEN <<entry>> \o sorted
         ELSE <<Head(sorted)>> \o InsertSortedAheadOfTies(Tail(sorted), entry)

\* One entry put into a sequence sorted by (a, b) => b[1] - a[1], after
\* every entry that does not sort behind it: the sort is stable.
RECURSIVE InsertSorted(_, _)
InsertSorted(sorted, entry) ==
    IF sorted = <<>> THEN <<entry>>
    ELSE IF entry[2] - Head(sorted)[2] > 0
         THEN <<entry>> \o sorted
         ELSE <<Head(sorted)>> \o InsertSorted(Tail(sorted), entry)

\* entries.sort((a, b) => b[1] - a[1])
RECURSIVE SortByTotalDesc(_)
SortByTotalDesc(entries) ==
    IF entries = <<>> THEN <<>>
    ELSE InsertSorted(SortByTotalDesc(SubSeq(entries, 1, Len(entries) - 1)),
                      entries[Len(entries)])

\* A variant of the breakdown that leaves out the categories whose total
\* is zero.
CategoryBreakdownWithoutZero(monthExpenses) ==
    LET spent(entry) == entry[2] # 0
    IN  SelectSeq(SortByTotalDesc(GroupTotals(monthExpenses, "category")), spent)

\* The sorted (category, total) pairs of renderCategoryBreakdown and
\* renderInsights.
CategoryBreakdown(monthExpenses) ==
    SortByTotalDesc(GroupTotals(monthExpenses, "category"))

(***************************************************************************)
(* Rendering.  A rendered amount is the text toFixed(2) gives: its value   *)
(* in hundredths, or "NaN".                                                *)
(***************************************************************************)
\* A quotient the code computes in floating point, kept exact.
Rat(n, d) == [num |-> n, den |-> d]

\* formatCurrency of the number r.num / r.den (not negative): toFixed(2)
\* rounds to the nearest hundredth, a tie upwards.
FormatRat(r) ==
    [nan |-> FALSE, hundredths |-> (200 * r.num + r.den) \div (2 * r.den)]

\* formatCurrency(amount): parseFloat(null) is NaN.
formatCurrency(amount) ==
    IF amount.kind = "num" THEN FormatRat(Rat(amount.v, 1))
    ELSE [nan |-> TRUE, hundredths |-> 0]

LedgerRow(exp) ==
    [name |-> exp.name, category |-> exp.category,
     amount |-> formatCurrency(exp.amount), id |-> exp.id]

\* The header texts: the local date (formatDate) and the local month
\* (formatMonth) of the clock reading.
updateHeader(today, offset) ==
    [todayDate |-> LocalDate(today, offset),
     currentMonth |-> getMonthString(today, offset)]

\* The renderers are given the localStorage entry, the clock reading and
\* the time-zone offset they read.
renderTodayLedger(item, today) ==
    LET todayExpenses == TodayExpensesOf(ExpensesOf(item), today)
    IN  IF Len(todayExpenses) = 0
        THEN [empty |-> TRUE, rows |-> <<>>, todayTotal |-> formatCurrency(Num(0))]
        ELSE [empty |-> FALSE,
              rows |-> [i \in 1..Len(todayExpenses) |-> LedgerRow(todayExpenses[i])],
              todayTotal |-> formatCurrency(Num(calculateTotal(todayExpenses)))]

\* total / currentDay when currentDay > 0, else 0.
AvgDaily(total, currentDay) ==
    IF currentDay > 0 THEN Rat(total, currentDay) ELSE Rat(0, 1)

renderMonthlySummary(item, today, offset) ==
    LET total == calculateTotal(MonthExpensesOf(ExpensesOf(item), today, offset))
        local == LocalDate(today, offset)
        daysInMonth == DaysInMonth(local[1], local[2])
        avgDaily == AvgDaily(total, local[3])
        projected == Rat(avgDaily.num * daysInMonth, avgDaily.den)
    IN  [monthTotal |-> formatCurrency(Num(total)),
         avgDaily |-> FormatRat(avgDaily),
         projected |-> FormatRat(projected),
         projectionText |-> total > 0]

CategoryItem(entry, highestCategory) ==
    [category |-> entry[1], total |-> formatCurrency(Num(entry[2])),
     isHighest |-> entry[1] = highestCategory]

renderCategoryBreakdown(item, today, offset) ==
    LET monthExpenses == MonthExpensesOf(ExpensesOf(item), today, offset)
        categories == CategoryBreakdown(monthExpenses)
    IN  IF Len(monthExpenses) = 0
        THEN [empty |-> TRUE, items |-> <<>>]
        ELSE [empty |-> FALSE,
              items |-> [i \in 1..Len(categories) |->
                            CategoryItem(categories[i], categories[1][1])]]

(***************************************************************************)
(* Insights.                                                               *)
(***************************************************************************)
SpendThreshold == 500
HighDayCount == 3
\* 1.5
HighDayFactor == Rat(3, 2)

\* An element of the insights container.
Element(class, text, category) ==
    [class |-> class, text |-> text, category |-> category]

NoInsightsYet ==
    Element("empty-state", "No insights yet. Start tracking expenses!", "")
AboveAverage ==
    Element("insight-item", "You spent more than your daily average today.", "")
HighestCategory(c) ==
    Element("insight-item", "expenses are your highest spending category.", c)
MultipleDays ==
    Element("insight-item", "High spending detected on multiple days this month.", "")
\* (the text without its rupee sign)
OverThreshold ==
    Element("insight-item", "Today's spending exceeds 500.", "")
UnderControl ==
    Element("insight-item", "Your spending is under control. Keep tracking!", "")

\* x > r.num / r.den
GreaterThanRat(x, r) == x * r.den > r.num

\* A variant of the high-spending days that keys the totals by the
\* expense's timestamp instead of its date.
HighSpendingInstants(monthExpenses, avgDaily) ==
    LET limit == Rat(avgDaily.num * HighDayFactor.num,
                     avgDaily.den * HighDayFactor.den)
        high(entry) == GreaterThanRat(entry[2], limit)
    IN  SelectSeq(GroupTotals(monthExpenses, "timestamp"), high)

\* The entries of expensesByDate whose total exceeds avgDaily * 1.5.
HighSpendingDays(monthExpenses, avgDaily) ==
    LET limit == Rat(avgDaily.num * HighDayFactor.num,
                     avgDaily.den * HighDayFactor.den)
        high(entry) == GreaterThanRat(entry[2], limit)
    IN  SelectSeq(GroupTotals(monthExpenses, "date"), high)

\* The insights pushed once the month is known to hold a record.
InsightRules(todayExpenses, monthExpenses, currentDay) ==
    LET todayTotal == calculateTotal(todayExpenses)
        monthTotal == calculateTotal(monthExpenses)
        avgDaily == AvgDaily(monthTotal, currentDay)
        i1 == IF GreaterThanRat(todayTotal, avgDaily) /\ avgDaily.num > 0
              THEN <<AboveAverage>> ELSE <<>>
        categories == CategoryBreakdown(monthExpenses)
        i2 == IF Len(categories) > 0
              THEN Append(i1, HighestCategory(categories[1][1])) ELSE i1
        i3 == IF Len(HighSpendingDays(monthExpenses, avgDaily)) >= HighDayCount
              THEN Append(i2, MultipleDays) ELSE i2
        i4 == IF todayTotal > SpendThreshold
              THEN Append(i3, OverThreshold) ELSE i3
    IN  IF Len(i4) = 0 THEN <<UnderControl>> ELSE i4

\* A variant of renderInsights without the early return for an empty month.
RenderInsightsWithoutReturn(todayExpenses, monthExpenses, currentDay) ==
    InsightRules(todayExpenses, monthExpenses, currentDay)

\* The elements renderInsights puts in the insights container.
RenderInsights(todayExpenses, monthExpenses, currentDay) ==
    IF Len(monthExpenses) = 0 THEN <<NoInsightsYet>>
    ELSE InsightRules(todayExpenses, monthExpenses, currentDay)

renderInsights(item, today, offset) ==
    RenderInsights(TodayExpensesOf(ExpensesOf(item), today),
                   MonthExpensesOf(ExpensesOf(item), today, offset),
                   CurrentDay(today, offset))

(***************************************************************************)
(* The handlers.                                                           *)
(***************************************************************************)
\* What the user can type and choose: <<name, amount, category>>.
Blank == <<" ", " ">>
Tea == <<" ", "t", "e", "a", " ">>
FormInputs ==
    {<<<<>>, <<"3", "0", "0">>, "food">>,
     <<Tea, <<>>, "food">>,
     <<Tea, <<"0">>, "food">>,
     <<Tea, <<"-", "5">>, "travel">>,
     <<Blank, <<"3", "0", "0">>, "food">>,
     <<Tea, <<"6", "0", "0">>, "travel">>,
     <<Tea, <<"a", "b", "c">>, "travel">>}

\* The categories the form offers.
Categories == {input[3] : input \in FormInputs}

\* Whether a record of the collection carries the id.
HasId(expenses, id) == \E i \in 1..Len(expenses) : expenses[i].id = id

\* The ids handleDelete is called with: those of the collection, which are
\* those of the Delete buttons, and 0, which no record carries (the clock
\* starts after its origin).
DeleteIds == {getExpenses[i].id : i \in 1..Len(getExpenses)} \cup {0}

\* The last operation that wrote the collection, and for a delete whether
\* a record carried the id.
Op(op, hit) == [op |-> op, hit |-> hit]

\* refreshUI, reading the localStorage entry the handler has written.
refreshUI(item) ==
    /\ ledger' = renderTodayLedger(item, now)
    /\ summary' = renderMonthlySummary(item, now, tz)
    /\ breakdown' = renderCategoryBreakdown(item, now, tz)
    /\ insights' = renderInsights(item, now, tz)

\* !name || !amount || parseFloat(amount) <= 0 (false for NaN)
InvalidDetails(name, amount) ==
    \/ name = <<>>
    \/ amount = <<>>
    \/ parseFloat(amount).kind = "num" /\ parseFloat(amount).v <= 0

\* The submit handler, given the values of the three form fields; the
\* alert and the form reset leave no trace in the state.
handleFormSubmit(name, amount, category) ==
    \/ /\ InvalidDetails(name, amount)
       /\ UNCHANGED vars
    \/ /\ ~InvalidDetails(name, amount)
       /\ Len(getExpenses) < MaxLen
       /\ storage' = addExpense(name, amount, category)
       /\ lastOp' = Op("add", FALSE)
       /\ refreshUI(storage')
       /\ UNCHANGED <<now, tz, header>>

\* The delete handler, given the answer to its confirm dialog.
handleDelete(id, confirmed) ==
    \/ /\ confirmed
       /\ storage' = deleteExpense(id)
       /\ lastOp' = Op("delete", HasId(getExpenses, id))
       /\ refreshUI(storage')
       /\ UNCHANGED <<now, tz, header>>
    \/ /\ ~confirmed
       /\ UNCHANGED vars

\* Time passes.
Tick ==
    /\ (now - StartMs) \div StepMs < MaxTicks
    /\ now' = now + StepMs
    /\ UNCHANGED <<storage, tz, lastOp, header, ledger, summary, breakdown, insights>>

\* The page after init: nothing stored, everything rendered once.
Init ==
    /\ storage = NoItem
    /\ now = StartMs
    /\ tz \in TzOffsets
    /\ lastOp = Op("init", FALSE)
    /\ header = updateHeader(now, tz)
    /\ ledger = renderTodayLedger(storage, now)
    /\ summary = renderMonthlySummary(storage, now, tz)
    /\ breakdown = renderCategoryBreakdown(storage, now, tz)
    /\ insights = renderInsights(storage, now, tz)

Next ==
    \/ \E input \in FormInputs : handleFormSubmit(input[1], input[2], input[3])
    \/ \E id \in DeleteIds, confirmed \in BOOLEAN : handleDelete(id, confirmed)
    \/ Tick

Spec == Init /\ [][Next]_vars

(***************************************************************************)
(* Properties.                                                             *)
(***************************************************************************)
Range(seq) == {seq[i] : i \in 1..Len(seq)}

Last(seq) == seq[Len(seq)]

RemoveAt(seq, k) == SubSeq(seq, 1, k - 1) \o SubSeq(seq, k + 1, Len(seq))

\* What the handlers compute from the current state.
TodayNow == getTodayExpenses
MonthNow == getCurrentMonthExpenses
InsightsNow == RenderInsights(TodayNow, MonthNow, CurrentDay(now, tz))

\* C1: with no delete in between, the collection lists one record per add
\* call, in call order, each with the trimmed name, the parsed amount and the
\* category of its call.  Stated step by step: every accepted add appends
\* exactly that record and leaves the earlier records as they were.
AddAppendsTheCallsRecord ==
    [][\A input \in FormInputs :
          (~InvalidDetails(input[1], input[2])
             /\ handleFormSubmit(input[1], input[2], input[3]))
          => /\ Len(ExpensesOf(storage')) = Len(getExpenses) + 1
             /\ SubSeq(ExpensesOf(storage'), 1, Len(getExpenses)) = getExpenses
             /\ Last(ExpensesOf(storage')).name = Trim(input[1])
             /\ Last(ExpensesOf(storage')).amount = parseFloat(input[2])
             /\ Last(ExpensesOf(storage')).category = input[3]]_vars

\* C2: no two records of the collection have the same id.
UniqueIds ==
    \A i, j \in 1..Len(getExpenses) :
        i # j => getExpenses[i].id # getExpenses[j].id

\* A request the claim says is refused: the name is empty after trimming, or
\* the amount is not a positive number.
MustBeRejected(name, amount) ==
    \/ Trim(name) = <<>>
    \/ parseFloat(amount).kind # "num"
    \/ parseFloat(amount).v <= 0

ValidRecord(exp) ==
    exp.name # <<>> /\ exp.amount.kind = "num" /\ exp.amount.v > 0

\* C3: an add whose name is empty after trimming or whose amount is not a
\* positive number leaves the collection unchanged, and every record of the
\* collection has a non-empty name and an amount above zero.
InvalidAddsAreRejected ==
    [][/\ \A input \in FormInputs :
             (MustBeRejected(input[1], input[2])
                /\ handleFormSubmit(input[1], input[2], input[3]))
             => storage' = storage
       /\ \A exp \in Range(ExpensesOf(storage')) : ValidRecord(exp)]_vars

\* The localStorage entry after deleteExpense(id) twice.
DeletedTwice(id) ==
    saveExpenses(FilterOutId(ExpensesOf(deleteExpense(id)), id))

\* C4: deleting an id no record carries leaves the collection as it was, and
\* deleting an id twice leaves what deleting it once leaves.  (lastOp' is
\* Op("delete", FALSE) after a delete of an absent id, and otherwise only
\* after a step that writes neither lastOp nor the collection.)
DeleteOfAbsentIdIsNoOp ==
    [][/\ lastOp' = Op("delete", FALSE) => ExpensesOf(storage') = getExpenses
       /\ \A id \in DeleteIds :
             ExpensesOf(DeletedTwice(id)) = ExpensesOf(deleteExpense(id))]_vars

\* C4, reached: a delete of an absent id has run on a collection of two or
\* more records.
AbsentIdDeleted ==
    lastOp = Op("delete", FALSE) /\ Len(getExpenses) >= 2

CategoriesIn(expenses) == {expenses[i].category : i \in 1..Len(expenses)}

SumOfCategory(expenses, c) ==
    LET inCategory(exp) == exp.category = c
    IN  calculateTotal(SelectSeq(expenses, inCategory))

FirstSeen(expenses, c) ==
    CHOOSE i \in 1..Len(expenses) :
        /\ expenses[i].category = c
        /\ \A j \in 1..(i - 1) : expenses[j].category # c

BreakdownIsRight(expenses) ==
    LET b == CategoryBreakdown(expenses)
    IN  /\ Len(b) = Cardinality(CategoriesIn(expenses))
        /\ {b[i][1] : i \in 1..Len(b)} = CategoriesIn(expenses)
        /\ \A i \in 1..Len(b) : b[i][2] = SumOfCategory(expenses, b[i][1])
        /\ \A i, j \in 1..Len(b) :
              i < j =>
                \/ b[i][2] > b[j][2]
                \/ /\ b[i][2] = b[j][2]
                   /\ FirstSeen(expenses, b[i][1]) < FirstSeen(expenses, b[j][1])

\* C5: the category breakdown has one pair per category present, each with
\* the sum of its category's amounts, by total descending, equal totals in
\* order of first appearance; it is empty for no expenses, and the rendered
\* list marks its first item, and no other, as the highest.
BreakdownSortedAndStable ==
    /\ CategoryBreakdown(<<>>) = <<>>
    /\ BreakdownIsRight(getExpenses)
    /\ BreakdownIsRight(MonthNow)
    /\ breakdown.empty = (breakdown.items = <<>>)
    /\ \A i \in 1..Len(breakdown.items) : breakdown.items[i].isHighest = (i = 1)

\* C5, reached: two categories with equal totals, the one met first ahead,
\* though it is the later one in alphabetical order.
BreakdownTie ==
    /\ CategoryBreakdown(MonthNow) = <<<<"travel", 600>>, <<"food", 600>>>>
    /\ Len(breakdown.items) = 2

Opt(cond, element) == IF cond THEN <<element>> ELSE <<>>

DatesIn(expenses) == {expenses[i].date : i \in 1..Len(expenses)}

DayTotal(expenses, d) ==
    LET onDay(exp) == exp.date = d
    IN  calculateTotal(SelectSeq(expenses, onDay))

\* The insights the rules call for, in rule order; avgDaily is
\* total(month) / day, so x > avgDaily is x * day > total(month).
RuleInsights(today, month, day) ==
    LET todayTotal == calculateTotal(today)
        monthTotal == calculateTotal(month)
        highDays == {d \in DatesIn(month) :
                        2 * day * DayTotal(month, d) > 3 * monthTotal}
    IN  Opt(todayTotal * day > monthTotal /\ monthTotal > 0, AboveAverage)
        \o Opt(CategoryBreakdown(month) # <<>>,
               HighestCategory(CategoryBreakdown(month)[1][1]))
        \o Opt(Cardinality(highDays) >= 3, MultipleDays)
        \o Opt(todayTotal > 500, OverThreshold)

\* C6: for a month that holds a record, the insights are those of the rules
\* that apply, in rule order, and the fallback alone when none applies; a
\* today total of 600 brings the threshold insight.
InsightsFollowTheRules ==
    MonthNow # <<>> =>
        LET day == CurrentDay(now, tz)
            rules == RuleInsights(TodayNow, MonthNow, day)
        IN  /\ InsightsNow = IF rules = <<>> THEN <<UnderControl>> ELSE rules
            /\ calculateTotal(TodayNow) = 600 => OverThreshold \in Range(InsightsNow)

\* C6, reached: all four rules apply at once, with today's total 600.
AllRulesApply ==
    /\ calculateTotal(TodayNow) = 600
    /\ \E c \in Categories :
          InsightsNow = <<AboveAverage, HighestCategory(c), MultipleDays, OverThreshold>>
          /\ insights = InsightsNow

\* C7: for a month that holds no record the insights are the one "no
\* insights yet" element, whatever today's expenses are.
EmptyMonthGivesNoInsightsYet ==
    /\ MonthNow = <<>> => InsightsNow = <<NoInsightsYet>>
    /\ \A today \in {TodayNow, getExpenses} :
          RenderInsights(today, <<>>, CurrentDay(now, tz)) = <<NoInsightsYet>>

\* C7, reached: an expense was just added, today's expenses hold it, the
\* month's expenses hold nothing, and the page shows "no insights yet".
EmptyMonthWithExpensesToday ==
    /\ lastOp = Op("add", FALSE)
    /\ MonthNow = <<>>
    /\ calculateTotal(TodayNow) > SpendThreshold
    /\ insights = <<NoInsightsYet>>

\* C8: a confirmed delete of an id the collection holds removes exactly one
\* record, the one with that id, and leaves the others as they were, in
\* order; a declined delete leaves the collection unchanged.
DeleteRemovesExactlyOne ==
    [][\A id \in DeleteIds :
          /\ (HasId(getExpenses, id) /\ handleDelete(id, TRUE))
             => \E k \in 1..Len(getExpenses) :
                   /\ getExpenses[k].id = id
                   /\ ExpensesOf(storage') = RemoveAt(getExpenses, k)
          /\ handleDelete(id, FALSE) => ExpensesOf(storage') = getExpenses]_vars

\* C9: today's expenses are a sub-sequence of the month's (selecting today's
\* among the month's loses none), and the page never shows "no insights yet"
\* beside a ledger that lists an expense.
TodayWithinMonth ==
    /\ TodayExpensesOf(MonthNow, now) = TodayNow
    /\ ~ledger.empty => insights # <<NoInsightsYet>>

IsHighestCategoryInsight(e) ==
    e.class = "insight-item" /\ e.text = HighestCategory("").text

\* C10: for a month that holds a record the highest-category insight is
\* among the insights, and the fallback insight is never computed nor shown.
FallbackNeverShown ==
    /\ UnderControl \notin Range(insights)
    /\ UnderControl \notin Range(InsightsNow)
    /\ MonthNow # <<>> => \E e \in Range(InsightsNow) : IsHighestCategoryInsight(e)

\* C10, reached: the month holds records that sum to zero, no other rule
\* applies, and the page shows the highest-category insight alone.
OnlyHighestCategoryShown ==
    /\ MonthNow # <<>>
    /\ calculateTotal(MonthNow) = 0
    /\ insights = <<HighestCategory("travel")>>
    /\ InsightsNow = insights

====
